---------------------------- MODULE Spec2Model ----------------------------
(***************************************************************************)
(* A model of the numeric core of binjs_io:                                *)
(*   - crates/binjs_io/src/bytes/float.rs   (raw float64 codec, varfloat)  *)
(*   - crates/binjs_io/src/io/statistics.rs (ContentInfo accounting)       *)
(*                                                                         *)
(* TLC integers are 32 bits wide, so wider machine words are kept as       *)
(* tuples of 16-bit limbs (least significant limb first):                  *)
(*   u64  ==  <<w0, w1, w2, w3>>                                           *)
(*   u32  ==  [lo |-> 0..65535, hi |-> 0..65535]                           *)
(* An f64 is kept by its IEEE-754 fields,                                  *)
(*   [sign |-> 0..1, exp |-> 0..2047, frac |-> <<f0, f1, f2, f3>>]         *)
(* with f0..f2 16-bit limbs and f3 the top 4 bits of the 52-bit fraction.  *)
(***************************************************************************)
EXTENDS Integers, Sequences, FiniteSets, TLC

VARIABLES
    overflow_checks,  \* build profile: TRUE = arithmetic overflow panics
    sink,             \* the Write sink (a Vec<u8>): sequence of bytes
    written,          \* the values handed to write_maybe_varfloat so far
    returned,         \* the Ok(count) each completed call returned
    last,             \* internals of the most recent write_varfloat call
    panicked,         \* a call unwound with an arithmetic-overflow panic
    arg,              \* raw codec: the Option<f64> under test
    buf,              \* raw codec: result of bytes_of_float(arg), or <<>>
    decoded,          \* raw codec: result of float_of_bytes(buf)
    info,             \* statistics: per-worker ContentInfo<usize newtype>
    phase,            \* statistics: "build" | "merge" | "iterate" | "report"
    pool,             \* statistics: records still to be added together
    inputs,           \* statistics: the records as they were at the barrier
    visit             \* statistics: what the iterators/into_with produced

vars == <<overflow_checks, sink, written, returned, last, panicked,
          arg, buf, decoded, info, phase, pool, inputs, visit>>

codecVars == <<overflow_checks, sink, written, returned, last, panicked,
               arg, buf, decoded>>
statVars  == <<info, phase, pool, inputs, visit>>

-----------------------------------------------------------------------------
(* Machine arithmetic *)

Limb == 256 * 256
Byte == 256
MaxI32 == 2147483647
MinI32 == -MaxI32 - 1

RECURSIVE Pow2(_)
Pow2(k) == IF k = 0 THEN 1 ELSE 2 * Pow2(k - 1)

RECURSIVE BitOr(_, _)
\* a | b on non-negative integers
BitOr(a, b) ==
    IF a = 0 THEN b
    ELSE IF b = 0 THEN a
    ELSE (IF a % 2 = 1 \/ b % 2 = 1 THEN 1 ELSE 0) + 2 * BitOr(a \div 2, b \div 2)

\* u64 | u64
Or64(a, b) == [i \in 1..4 |-> BitOr(a[i], b[i])]

\* (byte as u64) << k, for k a multiple of 8 below 64
Shl64(byte, k) ==
    [i \in 1..4 |-> IF i = (k \div 16) + 1 THEN byte * Pow2(k % 16) ELSE 0]

\* u64 >> 8
Shr8(u) ==
    [i \in 1..4 |-> (u[i] \div Byte) + (IF i < 4 THEN (u[i + 1] % Byte) * Byte ELSE 0)]

\* u64 % 256
Mod256(u) == u[1] % Byte

\* i32 as u32: the same 32 bits
i32_as_u32(n) == [lo |-> n % Limb, hi |-> (n \div Limb) % Limb]

\* i32 negation `-n`: [v, ovf], v the wrapped result
neg_i32(n) ==
    IF n = MinI32 THEN [v |-> MinI32, ovf |-> TRUE] ELSE [v |-> -n, ovf |-> FALSE]

\* i32 `n + 1`: [v, ovf], v the wrapped result
inc_i32(n) ==
    IF n = MaxI32 THEN [v |-> MinI32, ovf |-> TRUE] ELSE [v |-> n + 1, ovf |-> FALSE]

\* u32 `2 * u`: [v, ovf], v the wrapped result
mul2_u32(u) ==
    LET lo2 == 2 * u.lo
        hi2 == 2 * u.hi + (lo2 \div Limb)
    IN  [v |-> [lo |-> lo2 % Limb, hi |-> hi2 % Limb], ovf |-> hi2 >= Limb]

\* u32 `u - 1`: [v, ovf], v the wrapped result
dec_u32(u) ==
    IF u.lo > 0 THEN [v |-> [lo |-> u.lo - 1, hi |-> u.hi], ovf |-> FALSE]
    ELSE IF u.hi > 0 THEN [v |-> [lo |-> Limb - 1, hi |-> u.hi - 1], ovf |-> FALSE]
    ELSE [v |-> [lo |-> Limb - 1, hi |-> Limb - 1], ovf |-> TRUE]

-----------------------------------------------------------------------------
(* f64 *)

ZeroFrac == <<0, 0, 0, 0>>
F64(s, e, f) == [sign |-> s, exp |-> e, frac |-> f]

is_nan(v) == v.exp = 2047 /\ v.frac # ZeroFrac
is_zero(v) == v.exp = 0 /\ v.frac = ZeroFrac
is_sign_positive(v) == v.sign = 0

\* f64 == f64 (IEEE comparison: NaN equals nothing, +0.0 equals -0.0)
f64_eq(a, b) ==
    /\ ~is_nan(a)
    /\ ~is_nan(b)
    /\ (a = b \/ (is_zero(a) /\ is_zero(b)))

\* The top 30 bits of the 52-bit fraction.
Top30(f) == f[4] * Pow2(26) + f[3] * Pow2(10) + (f[2] \div 64)
\* The low 22 bits of the fraction are all zero.
Low22Zero(f) == f[1] = 0 /\ f[2] % 64 = 0

\* transmute::<f64, u64>: the IEEE-754 binary64 layout
transmute_f64_u64(v) ==
    <<v.frac[1], v.frac[2], v.frac[3], v.sign * 32768 + v.exp * 16 + v.frac[4]>>

\* transmute::<u64, f64>
transmute_u64_f64(u) ==
    [sign |-> u[4] \div 32768,
     exp  |-> (u[4] % 32768) \div 16,
     frac |-> <<u[1], u[2], u[3], u[4] % 16>>]

\* `n as f64` for an i32 n: exact
i32_as_f64(n) ==
    IF n = 0 THEN F64(0, 0, ZeroFrac)
    ELSE IF n = MinI32 THEN F64(1, 1023 + 31, ZeroFrac)
    ELSE
        LET mag == IF n < 0 THEN -n ELSE n
            p   == CHOOSE k \in 0..30 : Pow2(k) <= mag /\ (k = 30 \/ mag < Pow2(k + 1))
            t   == (mag - Pow2(p)) * Pow2(30 - p)
        IN  F64(IF n < 0 THEN 1 ELSE 0, 1023 + p,
                <<0, (t % 1024) * 64, (t \div 1024) % Limb, t \div Pow2(26)>>)

\* Whether `v as i32` is in range, i.e. trunc(v) is an i32.
cast_in_range(v) ==
    /\ v.exp # 2047
    /\ \/ v.exp < 1023 + 31
       \/ v.exp = 1023 + 31 /\ v.sign = 1 /\ Top30(v.frac) = 0 /\ v.frac[2] % 64 < 32

\* trunc(v) for an in-range v
trunc_i32(v) ==
    IF v.exp < 1023 THEN 0
    ELSE IF v.exp = 1023 + 31 THEN MinI32
    ELSE LET mag == (Pow2(30) + Top30(v.frac)) \div Pow2(30 - (v.exp - 1023))
         IN  IF v.sign = 1 THEN -mag ELSE mag

\* The saturating result of `v as i32` (NaN gives 0).
saturate_i32(v) ==
    IF is_nan(v) THEN 0 ELSE IF v.sign = 1 THEN MinI32 ELSE MaxI32

\* `v as i32`: the set of results a build can produce.  In range the cast
\* truncates toward zero.  Out of range (and for NaN) the cast saturates on
\* compilers that define it, and was undefined before that, where the x86
\* conversion instruction yields the "integer indefinite" value INT_MIN.
f64_as_i32(v) ==
    IF cast_in_range(v) THEN {trunc_i32(v)} ELSE {saturate_i32(v), MinI32}

-----------------------------------------------------------------------------
(* Raw Float64 codec *)

\* The pattern of +infinity, 0x7FF0000000000000, as the "no float" pattern.
NONE_FLOAT_REPR_inf == <<0, 0, 0, 32752>>

\* const NONE_FLOAT_REPR: u64 = 0x7FF0000000000001
NONE_FLOAT_REPR == <<1, 0, 0, 32752>>

None == [some |-> FALSE, value |-> F64(0, 0, ZeroFrac)]
Some(v) == [some |-> TRUE, value |-> v]

RECURSIVE bytes_loop(_, _, _)
\* for i in 0..8 { buf[i] = (as_u64 % 256) as u8; as_u64 >>= 8; }
bytes_loop(as_u64, b, i) ==
    IF i = 8 THEN b
    ELSE bytes_loop(Shr8(as_u64), [b EXCEPT ![i + 1] = Mod256(as_u64)], i + 1)

bytes_of_float(value) ==
    LET as_u64 == IF value.some THEN transmute_f64_u64(value.value)
                  ELSE NONE_FLOAT_REPR
    IN  bytes_loop(as_u64, <<0, 0, 0, 0, 0, 0, 0, 0>>, 0)

RECURSIVE or_bytes(_, _)
\* ((buf[0] as u64) << 0) | ((buf[1] as u64) << 8) | ... | ((buf[7] as u64) << 56)
or_bytes(b, i) ==
    IF i = 0 THEN Shl64(b[1], 0)
    ELSE Or64(or_bytes(b, i - 1), Shl64(b[i + 1], 8 * i))

\* float_of_bytes reading the buffer most significant byte first.
float_of_bytes_be(b) ==
    LET as_u64 == or_bytes([i \in 1..8 |-> b[9 - i]], 7)
    IN  IF as_u64 = NONE_FLOAT_REPR THEN None
        ELSE Some(transmute_u64_f64(as_u64))

float_of_bytes(b) ==
    LET as_u64 == or_bytes(b, 7)
    IN  IF as_u64 = NONE_FLOAT_REPR THEN None
        ELSE Some(transmute_u64_f64(as_u64))

-----------------------------------------------------------------------------
(* VarNum codec (bytes::varnum) *)

\* The two byte sequences no varnum encoding of a number starts with.
VARNUM_INVALID_ZERO_1 == <<1, 0>>
VARNUM_INVALID_ZERO_2 == <<1, 1, 0>>

\* u32 >> 7
shr7_u32(u) == [lo |-> (u.lo \div 128) + (u.hi % 128) * 512, hi |-> u.hi \div 128]

RECURSIVE varnum_bytes(_)
\* 7 payload bits per byte, least significant group first; the low bit of a
\* byte says that another byte follows.
varnum_bytes(u) ==
    LET more == u.hi > 0 \/ u.lo > 127
        byte == (u.lo % 128) * 2 + (IF more THEN 1 ELSE 0)
    IN  IF more THEN <<byte>> \o varnum_bytes(shr7_u32(u)) ELSE <<byte>>

\* write_varnum(value): the bytes appended and the count returned
write_varnum(u) ==
    LET bytes == varnum_bytes(u) IN [out |-> bytes, ret |-> Len(bytes)]

-----------------------------------------------------------------------------
(* VarFloat codec *)

VARNUM_PREFIX_FLOAT == VARNUM_INVALID_ZERO_1
VARNUM_NULL == VARNUM_INVALID_ZERO_2

ZeroU32 == [lo |-> 0, hi |-> 0]

\* fits_integer without the test that excludes -0.0.
fits_integer_no_sign(value, as_signed_integer) ==
    f64_eq(i32_as_f64(as_signed_integer), value)

\* as_signed_integer as f64 == value
\*     && (as_signed_integer != 0 || value.is_sign_positive())
fits_integer(value, as_signed_integer) ==
    /\ f64_eq(i32_as_f64(as_signed_integer), value)
    /\ (as_signed_integer # 0 \/ is_sign_positive(value))

\* let as_unsigned = if as_signed_integer >= 0 {
\*     2 * (as_signed_integer as u32)
\* } else {
\*     2 * ((-as_signed_integer + 1) as u32) - 1
\* };
\* [v, ovf]: v the value with wrapping arithmetic, ovf whether any of the
\* operations overflowed its type.
fold(as_signed_integer) ==
    IF as_signed_integer >= 0
    THEN mul2_u32(i32_as_u32(as_signed_integer))
    ELSE LET a == neg_i32(as_signed_integer)
             b == inc_i32(a.v)
             c == mul2_u32(i32_as_u32(b.v))
             d == dec_u32(c.v)
         IN  [v |-> d.v, ovf |-> a.ovf \/ b.ovf \/ c.ovf \/ d.ovf]

\* write_varfloat reporting only the 8 bytes of the float on the raw path.
write_varfloat_short(value, as_signed_integer, checks) ==
    IF fits_integer(value, as_signed_integer)
    THEN LET as_unsigned == fold(as_signed_integer)
             w == write_varnum(as_unsigned.v)
         IN  [panic |-> as_unsigned.ovf /\ checks, path |-> "integer",
              n |-> as_signed_integer, code |-> as_unsigned.v,
              ovf |-> as_unsigned.ovf,
              out |-> IF as_unsigned.ovf /\ checks THEN <<>> ELSE w.out,
              ret |-> IF as_unsigned.ovf /\ checks THEN 0 ELSE w.ret]
    ELSE LET bytes == bytes_of_float(Some(value))
         IN  [panic |-> FALSE, path |-> "raw", n |-> as_signed_integer,
              code |-> ZeroU32, ovf |-> FALSE,
              out |-> VARNUM_PREFIX_FLOAT \o bytes,
              ret |-> Len(bytes)]

\* write_varfloat(value), with as_signed_integer the result of `value as i32`
\* and checks whether the build panics on arithmetic overflow.
write_varfloat(value, as_signed_integer, checks) ==
    IF fits_integer(value, as_signed_integer)
    THEN LET as_unsigned == fold(as_signed_integer)
             w == write_varnum(as_unsigned.v)
         IN  IF as_unsigned.ovf /\ checks
             THEN [panic |-> TRUE, path |-> "integer", n |-> as_signed_integer,
                   code |-> as_unsigned.v, ovf |-> TRUE, out |-> <<>>, ret |-> 0]
             ELSE [panic |-> FALSE, path |-> "integer", n |-> as_signed_integer,
                   code |-> as_unsigned.v, ovf |-> as_unsigned.ovf,
                   out |-> w.out, ret |-> w.ret]
    ELSE LET bytes == bytes_of_float(Some(value))
         IN  [panic |-> FALSE, path |-> "raw", n |-> as_signed_integer,
              code |-> ZeroU32, ovf |-> FALSE,
              out |-> VARNUM_PREFIX_FLOAT \o bytes,
              ret |-> Len(bytes) + Len(VARNUM_PREFIX_FLOAT)]

\* write_maybe_varfloat(None)
write_null ==
    [panic |-> FALSE, path |-> "null", n |-> 0, code |-> ZeroU32, ovf |-> FALSE,
     out |-> VARNUM_NULL, ret |-> Len(VARNUM_NULL)]

\* The effect of one call on the sink and on what the caller sees.
Complete(value, r) ==
    /\ written' = Append(written, value)
    /\ last' = [path |-> r.path, n |-> r.n, code |-> r.code, ovf |-> r.ovf,
                panic |-> r.panic, appended |-> Len(r.out)]
    /\ \/ /\ r.panic
          /\ panicked' = TRUE
          /\ UNCHANGED <<sink, returned>>
       \/ /\ ~r.panic
          /\ sink' = sink \o r.out
          /\ returned' = Append(returned, r.ret)
          /\ UNCHANGED panicked

\* One call of write_maybe_varfloat on the sink.
write_maybe_varfloat(value) ==
    /\ ~panicked
    /\ IF value.some
       THEN \E as_signed_integer \in f64_as_i32(value.value) :
                Complete(value, write_varfloat(value.value, as_signed_integer,
                                               overflow_checks))
       ELSE Complete(value, write_null)
    /\ UNCHANGED <<overflow_checks, arg, buf, decoded>>
    /\ UNCHANGED statVars

\* The decoder's inverse of the sign-interleaving map: an even code 2k is k,
\* an odd code 2k+1 is -(k+1).
unfold(u) ==
    LET k == (u.hi \div 2) * Limb + (((u.hi % 2) * Limb + u.lo) \div 2)
    IN  IF u.lo % 2 = 0 THEN k ELSE -k - 1

-----------------------------------------------------------------------------
(* Content statistics *)

\* impl Sum for Bytes / Instances: iter.fold(Default::default(), Add::add)
RECURSIVE sum_fold(_, _)
sum_fold(acc, items) ==
    IF items = <<>> THEN acc ELSE sum_fold(acc + Head(items), Tail(items))

sum(items) == sum_fold(0, items)

\* ContentInfo::with(f)
with(f) ==
    [bools            |-> f["bools"],
     floats           |-> f["floats"],
     unsigned_longs   |-> f["unsigned_longs"],
     string_enums     |-> f["string_enums"],
     property_keys    |-> f["property_keys"],
     identifier_names |-> f["identifier_names"],
     interface_names  |-> f["interface_names"],
     string_literals  |-> f["string_literals"],
     list_lengths     |-> f["list_lengths"]]

\* ContentInfo::into_with(f): the record built from f's results
into_with(self, f) ==
    [bools            |-> f["bools", self.bools],
     floats           |-> f["floats", self.floats],
     unsigned_longs   |-> f["unsigned_longs", self.unsigned_longs],
     string_enums     |-> f["string_enums", self.string_enums],
     property_keys    |-> f["property_keys", self.property_keys],
     identifier_names |-> f["identifier_names", self.identifier_names],
     interface_names  |-> f["interface_names", self.interface_names],
     string_literals  |-> f["string_literals", self.string_literals],
     list_lengths     |-> f["list_lengths", self.list_lengths]]

\* ContentInfo::into_with(f): the calls of f, in the order the struct
\* expression evaluates its fields
into_with_calls(self) ==
    << <<"bools", self.bools>>,
       <<"floats", self.floats>>,
       <<"unsigned_longs", self.unsigned_longs>>,
       <<"string_enums", self.string_enums>>,
       <<"property_keys", self.property_keys>>,
       <<"identifier_names", self.identifier_names>>,
       <<"interface_names", self.interface_names>>,
       <<"string_literals", self.string_literals>>,
       <<"list_lengths", self.list_lengths>> >>

\* iter with the values of two categories exchanged.
iter_swapped(self) ==
    << <<"bools", self.bools>>,
       <<"floats", self.unsigned_longs>>,
       <<"unsigned_longs", self.floats>>,
       <<"string_enums", self.string_enums>>,
       <<"property_keys", self.property_keys>>,
       <<"identifier_names", self.identifier_names>>,
       <<"interface_names", self.interface_names>>,
       <<"string_literals", self.string_literals>>,
       <<"list_lengths", self.list_lengths>> >>

\* ContentInfo::iter
iter(self) ==
    << <<"bools", self.bools>>,
       <<"floats", self.floats>>,
       <<"unsigned_longs", self.unsigned_longs>>,
       <<"string_enums", self.string_enums>>,
       <<"property_keys", self.property_keys>>,
       <<"identifier_names", self.identifier_names>>,
       <<"interface_names", self.interface_names>>,
       <<"string_literals", self.string_literals>>,
       <<"list_lengths", self.list_lengths>> >>

\* ContentInfo::iter_mut
iter_mut(self) ==
    << <<"bools", self.bools>>,
       <<"floats", self.floats>>,
       <<"unsigned_longs", self.unsigned_longs>>,
       <<"string_enums", self.string_enums>>,
       <<"property_keys", self.property_keys>>,
       <<"identifier_names", self.identifier_names>>,
       <<"interface_names", self.interface_names>>,
       <<"string_literals", self.string_literals>>,
       <<"list_lengths", self.list_lengths>> >>

\* ContentInfo::into_iter
into_iter(self) ==
    << <<"bools", self.bools>>,
       <<"floats", self.floats>>,
       <<"unsigned_longs", self.unsigned_longs>>,
       <<"string_enums", self.string_enums>>,
       <<"property_keys", self.property_keys>>,
       <<"identifier_names", self.identifier_names>>,
       <<"interface_names", self.interface_names>>,
       <<"string_literals", self.string_literals>>,
       <<"list_lengths", self.list_lengths>> >>

\* add keeping the left operand's floats.
add_dropping(a, b) ==
    [bools            |-> a.bools + b.bools,
     floats           |-> a.floats,
     unsigned_longs   |-> a.unsigned_longs + b.unsigned_longs,
     string_enums     |-> a.string_enums + b.string_enums,
     property_keys    |-> a.property_keys + b.property_keys,
     identifier_names |-> a.identifier_names + b.identifier_names,
     interface_names  |-> a.interface_names + b.interface_names,
     string_literals  |-> a.string_literals + b.string_literals,
     list_lengths     |-> a.list_lengths + b.list_lengths]

\* #[derive(Add)] on ContentInfo<T>, T a newtype of usize deriving Add:
\* field by field
add(a, b) ==
    [bools            |-> a.bools + b.bools,
     floats           |-> a.floats + b.floats,
     unsigned_longs   |-> a.unsigned_longs + b.unsigned_longs,
     string_enums     |-> a.string_enums + b.string_enums,
     property_keys    |-> a.property_keys + b.property_keys,
     identifier_names |-> a.identifier_names + b.identifier_names,
     interface_names  |-> a.interface_names + b.interface_names,
     string_literals  |-> a.string_literals + b.string_literals,
     list_lengths     |-> a.list_lengths + b.list_lengths]

\* The sum of the nine fields of a record.
total(self) == sum([i \in 1..Len(into_iter(self)) |-> into_iter(self)[i][2]])


\* BytesAndInstances::new
BytesAndInstances_new(bytes, instances) == [bytes |-> bytes, instances |-> instances]

\* One line of a rendered report: what it is, its label, and the numbers it
\* prints or divides (all 0 on a heading).
Line(kind, name, symbols, bytes, total_symbols, total_bytes) ==
    [kind |-> kind, name |-> name, symbols |-> symbols, bytes |-> bytes,
     total_symbols |-> total_symbols, total_bytes |-> total_bytes]

\* impl DisplayWith<BytesAndInstances> for BytesAndInstances: fmt(self, total)
\* prints symbols, 100 * symbols / total_symbols, bytes,
\* 100 * bytes / total_bytes and 8 * bytes / symbols.
fmt_with(name, self, of_total) ==
    Line("field", name, self.instances, self.bytes, of_total.instances,
         of_total.bytes)

\* let total = BytesAndInstances {
\*     bytes: self.iter().map(|(_, data)| data.bytes.clone()).sum(),
\*     instances: self.iter().map(|(_, data)| data.instances.clone()).sum() };
grand_total(self) ==
    [bytes     |-> sum([i \in 1..Len(iter(self)) |-> iter(self)[i][2].bytes]),
     instances |-> sum([i \in 1..Len(iter(self)) |-> iter(self)[i][2].instances])]

\* fmt with the fields of the floats and unsigned longs lines exchanged.
fmt_swapped(self) ==
    LET t == grand_total(self)
    IN  << Line("heading", "Content:", 0, 0, 0, 0),
           Line("heading", "Fixed:", 0, 0, 0, 0),
           fmt_with("bools", self.bools, t),
           fmt_with("string enums", self.string_enums, t),
           fmt_with("interface names", self.interface_names, t),
           Line("heading", "User-extensible:", 0, 0, 0, 0),
           fmt_with("property_keys", self.property_keys, t),
           fmt_with("identifier names", self.identifier_names, t),
           fmt_with("string literals", self.string_literals, t),
           fmt_with("floats", self.unsigned_longs, t),
           fmt_with("unsigned longs", self.floats, t),
           fmt_with("list lengths", self.list_lengths, t),
           Line("total", "Total:", t.instances, t.bytes, 0, 0) >>

\* impl Display for ContentInfo<BytesAndInstances>: fmt(self), the lines
\* written to the formatter
fmt(self) ==
    LET t == grand_total(self)
    IN  << Line("heading", "Content:", 0, 0, 0, 0),
           Line("heading", "Fixed:", 0, 0, 0, 0),
           fmt_with("bools", self.bools, t),
           fmt_with("string enums", self.string_enums, t),
           fmt_with("interface names", self.interface_names, t),
           Line("heading", "User-extensible:", 0, 0, 0, 0),
           fmt_with("property_keys", self.property_keys, t),
           fmt_with("identifier names", self.identifier_names, t),
           fmt_with("string literals", self.string_literals, t),
           fmt_with("floats", self.floats, t),
           fmt_with("unsigned longs", self.unsigned_longs, t),
           fmt_with("list lengths", self.list_lengths, t),
           Line("total", "Total:", t.instances, t.bytes, 0, 0) >>

-----------------------------------------------------------------------------
(* Inputs *)

\* Bounds of the model.
MaxCalls == 4        \* calls on one sink
FoldRange == 1000    \* every integer of -FoldRange..FoldRange is an input

PlusZero  == F64(0, 0, ZeroFrac)
MinusZero == F64(1, 0, ZeroFrac)

\* Integers near the ends of the i32 range and near the ends of the varnum
\* length classes.
EdgeInts ==
    {MinI32, MinI32 + 1, MinI32 + 2, MinI32 + 3, MaxI32, MaxI32 - 1,
     Pow2(30), -Pow2(30), Pow2(30) - 1, -Pow2(30) - 1,
     8191, 8192, -8191, -8192, 1048575, 1048576, -1048575, -1048576,
     134217727, 134217728, -134217727, -134217728}

IntInputs == (-FoldRange .. FoldRange) \cup EdgeInts

\* Biased exponents: zero and subnormals, below one, 2^0 .. 2^32, the largest
\* finite exponent, infinities and NaNs.
ExpSamples == {0, 1, 1022, 1023, 1024, 1025, 1029, 1052, 1053, 1054, 1055, 2046, 2047}

\* Fractions: zero, one low bit, .5, .25, bit 22, bit 21, bit 20, all ones.
FracSamples ==
    {ZeroFrac, <<1, 0, 0, 0>>, <<0, 0, 0, 8>>, <<0, 0, 0, 4>>, <<0, 64, 0, 0>>,
     <<0, 32, 0, 0>>, <<0, 16, 0, 0>>, <<65535, 65535, 65535, 15>>}

PatternInputs == {F64(s, e, f) : s \in {0, 1}, e \in ExpSamples, f \in FracSamples}

CodecInputs ==
    {None} \cup {Some(i32_as_f64(n)) : n \in IntInputs}
           \cup {Some(v) : v \in PatternInputs}

\* 5.0, -3.0, 2.5, 64.0
Five      == i32_as_f64(5)
MinusThree == i32_as_f64(-3)
TwoAndHalf == F64(0, 1024, <<0, 0, 0, 4>>)

SessionInputs ==
    {None, Some(Five), Some(MinusThree), Some(TwoAndHalf), Some(MinusZero),
     Some(i32_as_f64(64)), Some(i32_as_f64(MinI32))}

-----------------------------------------------------------------------------
(* Specifications *)

NoCall == [path |-> "none", n |-> 0, code |-> ZeroU32, ovf |-> FALSE,
           panic |-> FALSE, appended |-> 0]

InitSink ==
    /\ overflow_checks \in BOOLEAN
    /\ sink = <<>>
    /\ written = <<>>
    /\ returned = <<>>
    /\ last = NoCall
    /\ panicked = FALSE

InitStatsIdle ==
    /\ info = <<>>
    /\ phase = "idle"
    /\ pool = <<>>
    /\ inputs = <<>>
    /\ visit = <<>>

\* A session of writes on one in-memory sink.
Init ==
    /\ InitSink
    /\ arg = None
    /\ buf = <<>>
    /\ decoded = <<>>
    /\ InitStatsIdle

Write ==
    /\ Len(written) < MaxCalls
    /\ \E value \in SessionInputs : write_maybe_varfloat(value)

Next == Write

Spec == Init /\ [][Next]_vars

\* The codecs applied to one value.
InitCodec ==
    /\ InitSink
    /\ arg \in CodecInputs
    /\ buf = <<>>
    /\ decoded = <<>>
    /\ InitStatsIdle

Encode ==
    /\ buf = <<>>
    /\ buf' = bytes_of_float(arg)
    /\ UNCHANGED <<overflow_checks, sink, written, returned, last, panicked,
                   arg, decoded>>
    /\ UNCHANGED statVars

Decode ==
    /\ buf # <<>>
    /\ decoded = <<>>
    /\ decoded' = <<float_of_bytes(buf)>>
    /\ UNCHANGED <<overflow_checks, sink, written, returned, last, panicked,
                   arg, buf>>
    /\ UNCHANGED statVars

WriteArg ==
    /\ written = <<>>
    /\ write_maybe_varfloat(arg)

NextCodec == Encode \/ Decode \/ WriteArg

SpecCodec == InitCodec /\ [][NextCodec]_vars

\* Accounting passes: workers build private ContentInfo records, a barrier
\* ends the passes, and the records are added together pairwise; or a record
\* is built and enumerated.
MaxWorkers == 3      \* private records built before the barrier
MaxCount == 1        \* an enumerated record holds counts 0..MaxCount

Names ==
    {"bools", "floats", "unsigned_longs", "string_enums", "property_keys",
     "identifier_names", "interface_names", "string_literals", "list_lengths"}

\* The counts a pass may end with.
PassCounts ==
    {[c \in Names |-> 0],
     [c \in Names |-> 1],
     [c \in Names |-> IF c = "floats" THEN 2 ELSE 0],
     [c \in Names |-> IF c \in {"bools", "list_lengths"} THEN 1 ELSE 0],
     [c \in Names |-> IF c \in {"bools", "string_enums", "interface_names"}
                       THEN 3 ELSE 1]}

InitStats ==
    /\ InitSink
    /\ overflow_checks = FALSE
    /\ arg = None
    /\ buf = <<>>
    /\ decoded = <<>>
    /\ info = <<>>
    /\ phase = "build"
    /\ pool = <<>>
    /\ inputs = <<>>
    /\ visit = <<>>

New ==
    /\ phase = "build"
    /\ Len(info) < MaxWorkers
    /\ \E f \in PassCounts : info' = Append(info, with(f))
    /\ UNCHANGED <<phase, pool, inputs, visit>>
    /\ UNCHANGED codecVars

Barrier ==
    /\ phase = "build"
    /\ info # <<>>
    /\ phase' = "merge"
    /\ pool' = info
    /\ inputs' = info
    /\ UNCHANGED <<info, visit>>
    /\ UNCHANGED codecVars

\* The sequence s without its elements at positions i and j.
Without(s, i, j) ==
    LET keep == {k \in 1..Len(s) : k # i /\ k # j}
        RECURSIVE pick(_)
        pick(k) == IF k > Len(s) THEN <<>>
                   ELSE (IF k \in keep THEN <<s[k]>> ELSE <<>>) \o pick(k + 1)
    IN  pick(1)

Merge ==
    /\ phase = "merge"
    /\ \E i, j \in 1..Len(pool) :
          /\ i # j
          /\ pool' = Append(Without(pool, i, j), add(pool[i], pool[j]))
    /\ UNCHANGED <<info, phase, inputs, visit>>
    /\ UNCHANGED codecVars

\* The transform handed to into_with: it keeps both of its arguments.
Pair == [x \in Names \X (0..MaxCount) |-> <<x[1], x[2]>>]

\* Each of the four enumerations is applied to a record fresh from with(f).
Iter ==
    /\ phase = "build" /\ info = <<>>
    /\ \E f \in [Names -> 0..MaxCount] :
          visit' = [kind |-> "iter", f |-> f, items |-> iter(with(f)),
                    result |-> <<>>]
    /\ phase' = "iterate"
    /\ UNCHANGED <<info, pool, inputs>>
    /\ UNCHANGED codecVars

IterMut ==
    /\ phase = "build" /\ info = <<>>
    /\ \E f \in [Names -> 0..MaxCount] :
          visit' = [kind |-> "iter_mut", f |-> f, items |-> iter_mut(with(f)),
                    result |-> <<>>]
    /\ phase' = "iterate"
    /\ UNCHANGED <<info, pool, inputs>>
    /\ UNCHANGED codecVars

IntoIter ==
    /\ phase = "build" /\ info = <<>>
    /\ \E f \in [Names -> 0..MaxCount] :
          visit' = [kind |-> "into_iter", f |-> f, items |-> into_iter(with(f)),
                    result |-> <<>>]
    /\ phase' = "iterate"
    /\ UNCHANGED <<info, pool, inputs>>
    /\ UNCHANGED codecVars

IntoWith ==
    /\ phase = "build" /\ info = <<>>
    /\ \E f \in [Names -> 0..MaxCount] :
          visit' = [kind |-> "into_with", f |-> f,
                    items |-> into_with_calls(with(f)),
                    result |-> into_with(with(f), Pair)]
    /\ phase' = "iterate"
    /\ UNCHANGED <<info, pool, inputs>>
    /\ UNCHANGED codecVars

\* A ContentInfo<BytesAndInstances> is built from byte counts and instance
\* counts, and rendered.
Render ==
    /\ phase = "build" /\ info = <<>>
    /\ \E fb \in [Names -> 0..MaxCount], fi \in PassCounts :
          LET self == with([c \in Names |-> BytesAndInstances_new(fb[c], fi[c])])
          IN  visit' = [kind |-> "fmt", f |-> self, items |-> fmt(self),
                        result |-> <<>>]
    /\ phase' = "report"
    /\ UNCHANGED <<info, pool, inputs>>
    /\ UNCHANGED codecVars

NextStats ==
    New \/ Barrier \/ Merge \/ Iter \/ IterMut \/ IntoIter \/ IntoWith \/ Render

SpecStats == InitStats /\ [][NextStats]_vars

-----------------------------------------------------------------------------
(* Properties of the raw Float64 codec, under SpecCodec *)

\* The 64 bits of two f64 values are the same.
SameBits(a, b) == transmute_f64_u64(a) = transmute_f64_u64(b)

\* The little-endian bytes 01 00 00 00 00 00 F0 7F of 0x7FF0000000000001.
ReservedBytes == <<1, 0, 0, 0, 0, 0, 240, 127>>
\* The f64 (a signalling NaN) whose bits are 0x7FF0000000000001.
ReservedNaN == F64(0, 2047, <<1, 0, 0, 0>>)

\* C1: float_of_bytes(bytes_of_float(Some(x))) is Some(x) with the same 64
\* bits for every x that is finite, an infinity or -0.0 (so -0.0 does not come
\* back as +0.0), and float_of_bytes(bytes_of_float(None)) is None.
C1_RawRoundTrip ==
    decoded # <<>> =>
        /\ (arg.some /\ ~is_nan(arg.value)) =>
               /\ decoded[1].some
               /\ SameBits(decoded[1].value, arg.value)
               /\ decoded[1].value = arg.value
        /\ ~arg.some => ~decoded[1].some

\* -0.0 has been encoded and decoded, and came back with its sign bit.
C1_Witness ==
    /\ arg = Some(MinusZero)
    /\ buf = <<0, 0, 0, 0, 0, 0, 0, 128>>
    /\ decoded = <<Some(MinusZero)>>
    /\ decoded[1].value # PlusZero

\* C9 as stated: for every present value Some(v) the 8 bytes of
\* bytes_of_float are not the bytes of the reserved pattern, and decoding
\* them never gives None.
C9_NeverReserved ==
    (buf # <<>> /\ arg.some) =>
        /\ buf # ReservedBytes
        /\ decoded # <<>> => decoded[1].some

\* C9 amended: for a present value Some(v), bytes_of_float gives the bytes of
\* the reserved pattern exactly when v is the NaN with the bits
\* 0x7FF0000000000001, and float_of_bytes of the result is None exactly then;
\* no value other than a NaN is affected.
C9_ReservedOnlyForThatNaN ==
    (buf # <<>> /\ arg.some) =>
        /\ (buf = ReservedBytes) <=> (arg.value = ReservedNaN)
        /\ decoded # <<>> => (decoded[1].some <=> arg.value # ReservedNaN)
        /\ (buf = ReservedBytes) => is_nan(arg.value)

\* The NaN 0x7FF0000000000001 was encoded as a present value and decoded as
\* None.
C9_Witness ==
    /\ arg = Some(ReservedNaN)
    /\ buf = ReservedBytes
    /\ decoded = <<None>>

-----------------------------------------------------------------------------
(* Properties of write_varfloat on one value, under SpecCodec *)

\* v is an integer in the i32 range, by its IEEE-754 fields: a zero, or
\* 1.f * 2^e with 0 <= e <= 30 and the low 52 - e bits of f zero, or -2^31.
IsI32Valued(v) ==
    \/ is_zero(v)
    \/ /\ v.exp >= 1023
       /\ v.exp <= 1023 + 30
       /\ Low22Zero(v.frac)
       /\ Top30(v.frac) % Pow2(30 - (v.exp - 1023)) = 0
    \/ v = F64(1, 1023 + 31, ZeroFrac)

\* The value of a u32 below 2^31.
U32Value(u) == u.hi * Limb + u.lo

\* write_varfloat has been called on the present value arg.
Wrote == written # <<>> /\ arg.some

C3_FoldIsZigZag ==
    (Wrote /\ last.path = "integer" /\ last.n \in -FoldRange..FoldRange) =>
        /\ last.code.hi = 0
        /\ last.n >= 0 => U32Value(last.code) = 2 * last.n
        /\ last.n < 0 => U32Value(last.code) = 2 * (-last.n) - 1

\* C4: for every n in -1000..1000 the decoder's inverse applied to the code
\* write_varfloat computes for n gives n again.
C4_UnfoldFold ==
    (Wrote /\ last.path = "integer" /\ last.n \in -FoldRange..FoldRange) =>
        unfold(last.code) = last.n

\* C5: every i32 n, INT32_MIN and -2147483647 included, is written on the
\* compact-integer path with no arithmetic overflow in computing its code,
\* and the encoding is at most 5 bytes long.
C5_EveryI32Encodable ==
    (Wrote /\ IsI32Valued(arg.value) /\ arg.value # MinusZero) =>
        /\ last.path = "integer"
        /\ ~last.ovf
        /\ ~panicked
        /\ Len(returned) = 1
        /\ returned[1] <= 5
        /\ Len(sink) = returned[1]

\* C10: the code of every integer in 0..127 and of every integer in
\* -127..-1 is below 128 and is written as a single byte.
C10_SmallInOneByte ==
    (Wrote /\ last.path = "integer" /\ last.n \in -127..127) =>
        /\ last.code.hi = 0
        /\ last.code.lo < 128
        /\ returned = <<1>>

-----------------------------------------------------------------------------
(* Properties of a session of writes, under Spec *)

RECURSIVE SeqSum(_)
SeqSum(q) == IF q = <<>> THEN 0 ELSE Head(q) + SeqSum(Tail(q))

\* The number of 7-bit groups a u32 needs.
Groups7(u) ==
    IF u.hi = 0 /\ u.lo < 128 THEN 1
    ELSE IF u.hi = 0 /\ u.lo < 16384 THEN 2
    ELSE IF u.hi < 32 THEN 3
    ELSE IF u.hi < 4096 THEN 4
    ELSE 5

\* The shape a value is written in.
Shape(value) ==
    IF ~value.some THEN "null"
    ELSE IF IsI32Valued(value.value) /\ value.value # MinusZero THEN "integer"
    ELSE "raw"

\* The bytes the i-th completed call appended, going by the counts returned.
Segment(i) ==
    LET start == SeqSum(SubSeq(returned, 1, i - 1))
    IN  SubSeq(sink, start + 1, start + returned[i])

Scenario == <<Some(Five), None, Some(MinusThree), Some(TwoAndHalf)>>

-----------------------------------------------------------------------------
(* Properties of the content statistics, under SpecStats *)

CategoryOrder ==
    <<"bools", "floats", "unsigned_longs", "string_enums", "property_keys",
      "identifier_names", "interface_names", "string_literals", "list_lengths">>

\* C7: ContentInfo::with(f) followed by iter() yields exactly 9 (name, value)
\* pairs in the order bools, floats, unsigned_longs, string_enums,
\* property_keys, identifier_names, interface_names, string_literals,
\* list_lengths, each value f(name); iter_mut, into_iter and into_with visit
\* the same names in the same order, each with its own category's value.
C7_NineInFixedOrder ==
    phase = "iterate" =>
        /\ Len(visit.items) = 9
        /\ \A i \in 1..9 :
              visit.items[i] = <<CategoryOrder[i], visit.f[CategoryOrder[i]]>>
        /\ visit.kind = "into_with" =>
               \A c \in Names : visit.result[c] = <<c, visit.f[c]>>

\* iter() has enumerated a record whose floats alone is 1.
C7_Witness ==
    /\ phase = "iterate"
    /\ visit.kind = "iter"
    /\ visit.f = [c \in Names |-> IF c = "floats" THEN 1 ELSE 0]
    /\ visit.items[2] = <<"floats", 1>>
    /\ visit.items[3] = <<"unsigned_longs", 0>>

RECURSIVE FieldSum(_, _)
\* The sum of category c over a sequence of records.
FieldSum(records, c) ==
    IF records = <<>> THEN 0 ELSE Head(records)[c] + FieldSum(Tail(records), c)

RECURSIVE TotalSum(_)
\* The sum of the 9-field totals of a sequence of records.
TotalSum(records) ==
    IF records = <<>> THEN 0 ELSE total(Head(records)) + TotalSum(Tail(records))

\* C8: adding privately built records together pairwise, in any order and
\* grouping, gives in each category the sum of that category over all the
\* records, so the 9 fields of the merged record sum to the sum of the
\* records' totals.
C8_MergeOrderIndependent ==
    phase = "merge" =>
        /\ \A c \in Names : FieldSum(pool, c) = FieldSum(inputs, c)
        /\ Len(pool) = 1 =>
               /\ \A c \in Names : pool[1][c] = FieldSum(inputs, c)
               /\ total(pool[1]) = TotalSum(inputs)

\* Three different records have been merged into one.
C8_Witness ==
    /\ phase = "merge"
    /\ Len(inputs) = 3
    /\ inputs[1] # inputs[2] /\ inputs[2] # inputs[3] /\ inputs[1] # inputs[3]
    /\ Len(pool) = 1
    /\ total(pool[1]) = TotalSum(inputs)
    /\ total(pool[1]) > 0

\* The layout of a report: each line's kind and label, and for a category's
\* line the category it is about.
ReportLayout ==
    << <<"heading", "Content:", "">>,
       <<"heading", "Fixed:", "">>,
       <<"field", "bools", "bools">>,
       <<"field", "string enums", "string_enums">>,
       <<"field", "interface names", "interface_names">>,
       <<"heading", "User-extensible:", "">>,
       <<"field", "property_keys", "property_keys">>,
       <<"field", "identifier names", "identifier_names">>,
       <<"field", "string literals", "string_literals">>,
       <<"field", "floats", "floats">>,
       <<"field", "unsigned longs", "unsigned_longs">>,
       <<"field", "list lengths", "list_lengths">>,
       <<"total", "Total:", "">> >>

RECURSIVE SetSum(_, _, _)
\* The sum over the categories cs of field k ("bytes" or "instances") of self.
SetSum(self, k, cs) ==
    IF cs = {} THEN 0
    ELSE LET c == CHOOSE x \in cs : TRUE
         IN  self[c][k] + SetSum(self, k, cs \ {c})

\* C11: the report of a ContentInfo<BytesAndInstances> lists each of the nine
\* categories exactly once, bools, string enums and interface names under
\* Fixed and property keys, identifier names, string literals, floats,
\* unsigned longs and list lengths under User-extensible, each line with its
\* own category's counts; it ends with a total line holding the sums of the
\* bytes and of the instances over the nine categories, and that grand total
\* is the denominator of every category's line.
C11_ReportLayoutAndTotal ==
    phase = "report" =>
        LET self  == visit.f
            lines == visit.items
            tb    == SetSum(self, "bytes", Names)
            ti    == SetSum(self, "instances", Names)
        IN  /\ Len(lines) = Len(ReportLayout)
            /\ \A i \in 1..Len(lines) :
                  /\ lines[i].kind = ReportLayout[i][1]
                  /\ lines[i].name = ReportLayout[i][2]
                  /\ lines[i].kind = "field" =>
                         /\ lines[i].bytes = self[ReportLayout[i][3]].bytes
                         /\ lines[i].symbols = self[ReportLayout[i][3]].instances
                         /\ lines[i].total_bytes = tb
                         /\ lines[i].total_symbols = ti
            /\ \A c \in Names :
                  Cardinality({i \in 1..Len(lines) :
                                 lines[i].kind = "field" /\ ReportLayout[i][3] = c}) = 1
            /\ lines[Len(lines)].kind = "total"
            /\ lines[Len(lines)].bytes = tb
            /\ lines[Len(lines)].symbols = ti

\* A report has been rendered of a record whose floats hold 1 byte in 2
\* instances and whose unsigned longs hold none; its total line has both sums.
C11_Witness ==
    /\ phase = "report"
    /\ visit.f.floats = BytesAndInstances_new(1, 2)
    /\ visit.f.unsigned_longs = BytesAndInstances_new(0, 0)
    /\ visit.items[10].name = "floats"
    /\ visit.items[10].bytes = 1
    /\ visit.items[10].symbols = 2
    /\ visit.items[13].bytes = 1
    /\ visit.items[13].symbols = 2
    /\ visit.items[10].total_bytes = 1

=============================================================================
